---- MODULE Spec2Model ----
(***************************************************************************)
(* Model of src/main.c (Project Euler 54 poker hand evaluator).            *)
(*                                                                         *)
(* One input line holds ten card tokens: five for the player, five for the *)
(* other hand.  main() parses the ten tokens with card_make, classifies    *)
(* both hands with calculate_play, compares the two plays with play_cmp    *)
(* and prints who won.                                                     *)
(*                                                                         *)
(* A C array int* + count is modelled as a sequence (index i of the C      *)
(* array is index i+1 of the sequence).  A Play carries the ghost field    *)
(* play_vals_freed: TRUE when the buffer play_vals points to has been      *)
(* passed to free().                                                       *)
(***************************************************************************)
EXTENDS Integers, Sequences, FiniteSets, TLC

VARIABLES line, line_cards, player_play, other_play, cmp_result, winner, result, pc

vars == <<line, line_cards, player_play, other_play, cmp_result, winner, result, pc>>

(***************************************************************************)
(* Bounds of the input space.                                              *)
(***************************************************************************)
\* ranks dealt in the two-hand specification are the ordinals 0..PoolTop
PoolTop == 2
\* the fifth card of a dealt hand takes one of the first NumSuitsDealt suits
NumSuitsDealt == 2

(***************************************************************************)
(* Program constants and tables.                                           *)
(***************************************************************************)
RANK_COUNT == 15

\* the thirteen rank characters rank_to_value knows, followed by one it does not
RankChars == <<"2", "3", "4", "5", "6", "7", "8", "9", "T", "J", "Q", "K", "A", "X">>

SuitChars == <<"H", "D", "C", "S">>

rank_to_value(rank) ==
    CASE rank = "2" -> 0
      [] rank = "3" -> 1
      [] rank = "4" -> 2
      [] rank = "5" -> 3
      [] rank = "6" -> 4
      [] rank = "7" -> 5
      [] rank = "8" -> 6
      [] rank = "9" -> 7
      [] rank = "T" -> 8
      [] rank = "J" -> 9
      [] rank = "Q" -> 10
      [] rank = "K" -> 11
      [] rank = "A" -> 12
      [] OTHER -> -1

count_to_n_pairs_Mut(count) ==
    CASE count = 0 -> 0
      [] count = 1 -> 0
      [] count = 2 -> 1
      [] count = 3 -> 2
      [] count = 4 -> 6
      [] OTHER -> -1

count_to_n_pairs(count) ==
    CASE count = 0 -> 0
      [] count = 1 -> 0
      [] count = 2 -> 1
      [] count = 3 -> 3
      [] count = 4 -> 6
      [] OTHER -> -1

n_pairs_to_score(n_pairs) ==
    CASE n_pairs = 0 -> 0
      [] n_pairs = 1 -> 1
      [] n_pairs = 2 -> 2
      [] n_pairs = 3 -> 3
      [] n_pairs = 4 -> 6
      [] n_pairs = 6 -> 7
      [] OTHER -> -1

card_make(rank, suit) == [rank |-> rank, value |-> rank_to_value(rank), suit |-> suit]

(***************************************************************************)
(* Helpers for array code.                                                 *)
(***************************************************************************)
Repeat(x, n) == [k \in 1..n |-> x]

RECURSIVE SumFn(_, _, _)
\* f[lo] + ... + f[hi]
SumFn(f, lo, hi) == IF lo > hi THEN 0 ELSE f[lo] + SumFn(f, lo + 1, hi)

RECURSIVE Tally(_, _, _, _)
\* "for (i = from; i <= size; i++) counts[vals[i]]++" (counting_sort and
\* cards_get_value_counts); an index outside the array increments memory
\* that is not part of it
Tally(counts, vals, from, size) ==
    IF from > size THEN counts
    ELSE Tally(IF vals[from] \in DOMAIN counts
               THEN [counts EXCEPT ![vals[from]] = @ + 1]
               ELSE counts,
               vals, from + 1, size)

RECURSIVE WriteUp(_, _, _)
\* the values written by "for (i = lo; i <= hi; i++) for (j = 0; j < counts[i]; j++) vals[val_idx++] = i"
WriteUp(counts, i, hi) ==
    IF i > hi THEN <<>> ELSE Repeat(i, counts[i]) \o WriteUp(counts, i + 1, hi)

RECURSIVE WriteDown(_, _, _)
\* the values written by "for (i = hi; i >= lo; i--) for (j = 0; j < counts[i]; j++) vals[val_idx++] = i"
WriteDown(counts, i, lo) ==
    IF i < lo THEN <<>> ELSE Repeat(i, counts[i]) \o WriteDown(counts, i - 1, lo)

\* counting_sort(vals, size, el_max, reverse): the array after the in-place
\* sort.  The descending loop runs i = el_max-1 down to 1, so entries equal
\* to 0 are counted but never written back; the cells past val_idx keep what
\* they held.  An element outside 0..el_max-1 increments memory outside
\* counts and is not written back either.
counting_sort(vals, size, el_max, reverse) ==
    LET counts == Tally([i \in 0..(el_max - 1) |-> 0], vals, 1, size)
        written == IF reverse THEN WriteDown(counts, el_max - 1, 1)
                   ELSE WriteUp(counts, 0, el_max - 1)
    IN  written \o SubSeq(vals, Len(written) + 1, Len(vals))

cards_get_values(card_count, cards) == [i \in 1..card_count |-> cards[i].value]

cards_get_suits(card_count, cards) == [i \in 1..card_count |-> cards[i].suit]

\* value_counts[cards[i].value]++ over a calloc'ed array of RANK_COUNT ints
cards_get_value_counts(card_count, cards) ==
    Tally([v \in 0..(RANK_COUNT - 1) |-> 0], cards_get_values(card_count, cards), 1, card_count)

calc_pairs_Mut(card_count, cards) ==
    LET counts == cards_get_value_counts(card_count, cards)
        n_pairs == SumFn([i \in 0..(RANK_COUNT - 1) |-> count_to_n_pairs(counts[i])], 0, RANK_COUNT - 1)
        play_val_count == SumFn([i \in 0..(RANK_COUNT - 1) |-> IF counts[i] > 1 THEN 2 ELSE 0], 0, RANK_COUNT - 1)
        high_val_count == SumFn([i \in 0..(RANK_COUNT - 1) |-> IF counts[i] > 1 THEN 0 ELSE counts[i]], 0, RANK_COUNT - 1)
        play_vals == WriteUp([i \in 0..(RANK_COUNT - 1) |-> IF counts[i] > 1 THEN counts[i] ELSE 0], 0, RANK_COUNT - 1)
        high_vals == WriteUp([i \in 0..(RANK_COUNT - 1) |-> IF counts[i] = 1 THEN counts[i] ELSE 0], 0, RANK_COUNT - 1)
    IN  [score |-> n_pairs_to_score(n_pairs),
         play_vals |-> play_vals, play_val_count |-> play_val_count,
         high_vals |-> high_vals, high_val_count |-> high_val_count,
         play_vals_freed |-> FALSE]

calc_pairs(card_count, cards) ==
    LET counts == cards_get_value_counts(card_count, cards)
        n_pairs == SumFn([i \in 0..(RANK_COUNT - 1) |-> count_to_n_pairs(counts[i])], 0, RANK_COUNT - 1)
        play_val_count == SumFn([i \in 0..(RANK_COUNT - 1) |-> IF counts[i] > 1 THEN counts[i] ELSE 0], 0, RANK_COUNT - 1)
        high_val_count == SumFn([i \in 0..(RANK_COUNT - 1) |-> IF counts[i] > 1 THEN 0 ELSE counts[i]], 0, RANK_COUNT - 1)
        play_vals == WriteUp([i \in 0..(RANK_COUNT - 1) |-> IF counts[i] > 1 THEN counts[i] ELSE 0], 0, RANK_COUNT - 1)
        high_vals == WriteUp([i \in 0..(RANK_COUNT - 1) |-> IF counts[i] = 1 THEN counts[i] ELSE 0], 0, RANK_COUNT - 1)
    IN  [score |-> n_pairs_to_score(n_pairs),
         play_vals |-> play_vals, play_val_count |-> play_val_count,
         high_vals |-> high_vals, high_val_count |-> high_val_count,
         play_vals_freed |-> FALSE]

is_straight(card_count, cards) ==
    LET values == counting_sort(cards_get_values(card_count, cards), card_count, RANK_COUNT, FALSE)
    IN  \A i \in 2..card_count : values[i - 1] + 1 = values[i]

is_flush(card_count, cards) ==
    LET suits == cards_get_suits(card_count, cards)
    IN  \A i \in 2..card_count : suits[1] = suits[i]

is_royal(card_count, cards) ==
    LET values == counting_sort(cards_get_values(card_count, cards), card_count, RANK_COUNT, FALSE)
        royal_ranks == <<"T", "J", "Q", "K", "A">>
    IN  \A i \in 1..card_count : values[i] = rank_to_value(royal_ranks[i])

\* calculate_play as it returns: `values` is freed on line 643, so a Play
\* built from it (scores 4, 5, 8) returns with play_vals dangling.  The play
\* of score 9 has every other member zero-initialised (NULL, 0).
calculate_play(card_count, cards) ==
    LET values == cards_get_values(card_count, cards)
        override(s) == [score |-> s,
                        play_val_count |-> card_count, play_vals |-> values,
                        high_val_count |-> 0, high_vals |-> <<>>,
                        play_vals_freed |-> TRUE]
        p0 == calc_pairs(card_count, cards)
        curr_is_straight == is_straight(card_count, cards)
        p1 == IF curr_is_straight /\ p0.score < 4 THEN override(4) ELSE p0
        curr_is_flush == is_flush(card_count, cards)
        p2 == IF curr_is_flush /\ p1.score < 5 THEN override(5) ELSE p1
    IN  IF curr_is_straight /\ curr_is_flush
        THEN IF is_royal(card_count, cards)
             THEN [score |-> 9,
                   play_val_count |-> 0, play_vals |-> <<>>,
                   high_val_count |-> 0, high_vals |-> <<>>,
                   play_vals_freed |-> FALSE]
             ELSE override(8)
        ELSE p2

RECURSIVE FirstDiff(_, _, _, _, _)
\* the while loop of high_vals_cmp / play_vals_cmp from index i on
FirstDiff(x, xn, y, yn, i) ==
    IF i <= xn /\ i <= yn
    THEN IF x[i] # y[i] THEN x[i] - y[i] ELSE FirstDiff(x, xn, y, yn, i + 1)
    ELSE xn - yn

\* the comparators sort both operands in place; each returns the int result
\* together with the operands as the call leaves them
high_vals_cmp(a, b) ==
    LET a1 == [a EXCEPT !.high_vals = counting_sort(a.high_vals, a.high_val_count, RANK_COUNT, TRUE)]
        b1 == [b EXCEPT !.high_vals = counting_sort(b.high_vals, b.high_val_count, RANK_COUNT, TRUE)]
    IN  [result |-> FirstDiff(a1.high_vals, a1.high_val_count, b1.high_vals, b1.high_val_count, 1),
         a |-> a1, b |-> b1]

play_vals_cmp(a, b) ==
    LET a1 == [a EXCEPT !.play_vals = counting_sort(a.play_vals, a.play_val_count, RANK_COUNT, TRUE)]
        b1 == [b EXCEPT !.play_vals = counting_sort(b.play_vals, b.play_val_count, RANK_COUNT, TRUE)]
    IN  [result |-> FirstDiff(a1.play_vals, a1.play_val_count, b1.play_vals, b1.play_val_count, 1),
         a |-> a1, b |-> b1]

play_cmp_Mut(a, b) ==
    LET pv == play_vals_cmp(a, b)
    IN  IF pv.result # 0 THEN pv
        ELSE IF a.score # b.score
             THEN [result |-> a.score - b.score, a |-> pv.a, b |-> pv.b]
             ELSE high_vals_cmp(pv.a, pv.b)

play_cmp(a, b) ==
    IF a.score # b.score
    THEN [result |-> a.score - b.score, a |-> a, b |-> b]
    ELSE LET pv == play_vals_cmp(a, b)
         IN  IF pv.result # 0 THEN pv ELSE high_vals_cmp(pv.a, pv.b)

(***************************************************************************)
(* What a read through a dangling play_vals can return: the stale ranks,   *)
(* or the ranks with the first word of the chunk overwritten by the        *)
(* allocator's free-list link.                                             *)
(***************************************************************************)
FreedImages(p) ==
    IF p.play_vals_freed /\ p.play_val_count > 1
    THEN {p.play_vals, [p.play_vals EXCEPT ![1] = 0, ![2] = 0]}
    ELSE {p.play_vals}

(***************************************************************************)
(* Input lines.                                                            *)
(***************************************************************************)
\* five tokens whose rank characters are RankChars[1..maxIdx] in table order;
\* the first four cards carry the first suit, the fifth any dealt suit
DealHands(maxIdx) ==
    { [i \in 1..5 |-> [r |-> RankChars[idx[i]],
                       s |-> IF i < 5 THEN SuitChars[1] ELSE SuitChars[s5]]] :
        idx \in {f \in [1..5 -> 1..maxIdx] : \A i \in 1..4 : f[i] <= f[i + 1]},
        s5 \in 1..NumSuitsDealt }

PoolHands == DealHands(PoolTop + 1)

AnyHands == DealHands(Len(RankChars))

FixedOther == [i \in 1..5 |-> [r |-> RankChars[2 * i], s |-> SuitChars[1 + (i % 2)]]]

NoPlay == [score |-> 0,
           play_val_count |-> 0, play_vals |-> <<>>,
           high_val_count |-> 0, high_vals |-> <<>>,
           play_vals_freed |-> FALSE]

InitRest ==
    /\ line_cards = <<>>
    /\ player_play = NoPlay
    /\ other_play = NoPlay
    /\ cmp_result = 0
    /\ winner = ""
    /\ result = 0
    /\ pc = "read"

\* both hands of the line dealt from the pool of low ranks
Init ==
    /\ \E p \in PoolHands, o \in PoolHands : line = p \o o
    /\ InitRest

\* the player's hand ranges over every rank character, the other hand is fixed
InitHand ==
    /\ \E p \in AnyHands : line = p \o FixedOther
    /\ InitRest

(***************************************************************************)
(* main: one action per step of the loop body.                             *)
(***************************************************************************)
\* lines 225-232: the ten tokens of the line become line_cards
ReadLine ==
    /\ pc = "read"
    /\ line_cards' = [i \in 1..Len(line) |-> card_make(line[i].r, line[i].s)]
    /\ pc' = "classify_player"
    /\ UNCHANGED <<line, player_play, other_play, cmp_result, winner, result>>

Hand(first) == SubSeq(line_cards, first, first + 4)

HasBogusValue(cards) == \E i \in DOMAIN cards : cards[i].value \notin 0..(RANK_COUNT - 1)

\* line 234.  With a card of value -1 the increments at index -1 corrupt the
\* heap: the call either aborts in free() or returns the play computed from
\* the cells inside the arrays.
CalculatePlayer ==
    /\ pc = "classify_player"
    /\ LET p == calculate_play(5, Hand(1))
       IN  \/ /\ \E img \in FreedImages(p) : player_play' = [p EXCEPT !.play_vals = img]
              /\ pc' = "classify_other"
           \/ /\ HasBogusValue(Hand(1))
              /\ player_play' = player_play
              /\ pc' = "aborted"
    /\ UNCHANGED <<line, line_cards, other_play, cmp_result, winner, result>>

\* line 235
CalculateOther ==
    /\ pc = "classify_other"
    /\ LET p == calculate_play(5, Hand(6))
       IN  \/ /\ \E img \in FreedImages(p) : other_play' = [p EXCEPT !.play_vals = img]
              /\ pc' = "compare"
           \/ /\ HasBogusValue(Hand(6))
              /\ other_play' = other_play
              /\ pc' = "aborted"
    /\ UNCHANGED <<line, line_cards, player_play, cmp_result, winner, result>>

\* line 237: play_cmp(&player_play, &other_play)
PlayCmp ==
    /\ pc = "compare"
    /\ LET r == play_cmp(player_play, other_play)
       IN  /\ cmp_result' = r.result
           /\ player_play' = r.a
           /\ other_play' = r.b
    /\ pc' = "report"
    /\ UNCHANGED <<line, line_cards, winner, result>>

\* lines 237-238 and 290: player_won, the tally and the printed winner
Report ==
    /\ pc = "report"
    /\ LET player_won == cmp_result > 0
       IN  /\ result' = result + (IF player_won THEN 1 ELSE 0)
           /\ winner' = IF player_won THEN "Player" ELSE "Other"
    /\ pc' = "done"
    /\ UNCHANGED <<line, line_cards, player_play, other_play, cmp_result>>

Next == ReadLine \/ CalculatePlayer \/ CalculateOther \/ PlayCmp \/ Report

Spec == Init /\ [][Next]_vars

SpecHand == InitHand /\ [][Next]_vars

(***************************************************************************)
(* Reference definitions used by the properties.                           *)
(***************************************************************************)
Sign(x) == IF x > 0 THEN 1 ELSE IF x < 0 THEN -1 ELSE 0

ClassifiedPlayer == pc \in {"classify_other", "compare", "report", "done"}

ClassifiedOther == pc \in {"compare", "report", "done"}

RanksParsed(cards) == \A i \in DOMAIN cards : cards[i].value \in 0..12

AtMostFourPerRank(cards) ==
    \A v \in 0..12 : Cardinality({i \in DOMAIN cards : cards[i].value = v}) <= 4

Max2(x, y) == IF x >= y THEN x ELSE y

\* the category of five cards by the rules of poker with the Ace high only
RefCategory(cards) ==
    LET ranks == {cards[i].value : i \in DOMAIN cards}
        cnt(v) == Cardinality({i \in DOMAIN cards : cards[i].value = v})
        pairs == {v \in ranks : cnt(v) = 2}
        trips == {v \in ranks : cnt(v) = 3}
        quads == {v \in ranks : cnt(v) = 4}
        straight == \E m \in 0..8 : ranks = m..(m + 4)
        flush == \A i, j \in DOMAIN cards : cards[i].suit = cards[j].suit
        group == IF quads # {} THEN 7
                 ELSE IF trips # {} /\ pairs # {} THEN 6
                 ELSE IF trips # {} THEN 3
                 ELSE IF Cardinality(pairs) = 2 THEN 2
                 ELSE IF Cardinality(pairs) = 1 THEN 1
                 ELSE 0
    IN  IF straight /\ flush /\ ranks = 8..12 THEN 9
        ELSE IF straight /\ flush THEN 8
        ELSE Max2(group, Max2(IF flush THEN 5 ELSE 0, IF straight THEN 4 ELSE 0))

RECURSIVE SortDesc(_)
\* a true descending sort of a sequence of integers
SortDesc(s) ==
    IF Len(s) = 0 THEN <<>>
    ELSE LET k == CHOOSE i \in 1..Len(s) : \A j \in 1..Len(s) : s[j] <= s[i]
         IN  <<s[k]>> \o SortDesc(SubSeq(s, 1, k - 1) \o SubSeq(s, k + 1, Len(s)))

RECURSIVE LexSign(_, _)
\* sign of the lexicographic comparison; a strict prefix is the smaller one
LexSign(x, y) ==
    IF Len(x) = 0 \/ Len(y) = 0 THEN Sign(Len(x) - Len(y))
    ELSE IF Head(x) # Head(y) THEN Sign(Head(x) - Head(y))
    ELSE LexSign(Tail(x), Tail(y))

\* the ranks a play's deciding values stand for: those of its buffer, or of
\* the hand it was built from when the buffer has been freed
HeldPlayVals(p, cards) ==
    IF p.play_vals_freed THEN cards_get_values(5, cards)
    ELSE SubSeq(p.play_vals, 1, p.play_val_count)

RefCmpSign(a, acards, b, bcards) ==
    LET d == LexSign(SortDesc(HeldPlayVals(a, acards)), SortDesc(HeldPlayVals(b, bcards)))
    IN  IF d # 0 THEN d
        ELSE LexSign(SortDesc(SubSeq(a.high_vals, 1, a.high_val_count)),
                     SortDesc(SubSeq(b.high_vals, 1, b.high_val_count)))

(***************************************************************************)
(* Properties.                                                             *)
(***************************************************************************)
\* C1: for two hands of the same category, the sign of play_cmp is the sign
\* of the lexicographic comparison of the truly descending deciding values
\* and then of the truly descending kickers, rank ordinal 0 included.
C1_CmpIsLexicographic ==
    (pc = "compare" /\ RanksParsed(line_cards) /\ player_play.score = other_play.score)
        => Sign(play_cmp(player_play, other_play).result)
             = RefCmpSign(player_play, Hand(1), other_play, Hand(6))

\* C2: a hand of parsed ranks with at most four cards per rank is classified
\* into the reference category; a straight that is also a flush is 8 or 9.
C2_CategoryIsReference ==
    /\ (ClassifiedPlayer /\ RanksParsed(Hand(1)) /\ AtMostFourPerRank(Hand(1)))
          => player_play.score = RefCategory(Hand(1))
    /\ (ClassifiedOther /\ RanksParsed(Hand(6)) /\ AtMostFourPerRank(Hand(6)))
          => other_play.score = RefCategory(Hand(6))

C2_Witness ==
    /\ pc = "classify_other"
    /\ player_play.score = 8
    /\ is_straight(5, Hand(1))
    /\ is_flush(5, Hand(1))

\* C3: a strictly higher category compares Greater, and Less the other way
\* round, whatever the deciding values and kickers.
C3_CategoryDecides ==
    /\ pc = "compare" =>
          /\ player_play.score > other_play.score =>
                /\ play_cmp(player_play, other_play).result > 0
                /\ play_cmp(other_play, player_play).result < 0
          /\ other_play.score > player_play.score =>
                /\ play_cmp(other_play, player_play).result > 0
                /\ play_cmp(player_play, other_play).result < 0
    /\ pc \in {"report", "done"} =>
          /\ player_play.score > other_play.score => cmp_result > 0
          /\ other_play.score > player_play.score => cmp_result < 0

C3_Witness ==
    /\ pc = "report"
    /\ player_play.score > other_play.score
    /\ player_play.play_val_count > 0
    /\ other_play.play_val_count > 0
    /\ player_play.play_vals[1] < other_play.play_vals[1]
    /\ cmp_result > 0

\* C4: play_cmp(a, b) followed by play_cmp(b, a) on the same two plays give
\* opposite signs, and one is zero iff the other is.
C4_Antisymmetric ==
    (pc = "compare" /\ RanksParsed(line_cards)) =>
        LET r1 == play_cmp(player_play, other_play)
            r2 == play_cmp(r1.b, r1.a)
        IN  Sign(r2.result) = 0 - Sign(r1.result)

\* C5: when the comparison of the two hands of a line is Equal, the line is
\* reported as a draw: neither "Player" nor "Other" is printed as the winner.
C5_EqualIsDraw ==
    (pc = "done" /\ cmp_result = 0) => winner \notin {"Player", "Other"}

\* C6: a rank character outside 2..9, T, J, Q, K, A fails card construction,
\* so no play is ever computed from a card whose value is not a rank ordinal.
C6_InvalidRankFails ==
    ClassifiedPlayer => RanksParsed(Hand(1))

\* C7: five cards of parsed ranks, however often a rank repeats, classify
\* into a category 0..9; the sentinel -1 is never returned as a score.
C7_ScoreIsCategory ==
    (ClassifiedPlayer /\ RanksParsed(Hand(1))) => player_play.score \in 0..9

ShapeOfPlay(p) ==
    /\ p.score \in {0, 1, 2, 3, 6, 7} =>
          /\ p.play_val_count + p.high_val_count = 5
          /\ Len(p.play_vals) = p.play_val_count
          /\ Len(p.high_vals) = p.high_val_count
    /\ p.score = 0 => (p.play_val_count = 0 /\ p.high_val_count = 5)
    /\ p.score \in {4, 5, 8} => (p.play_val_count = 5 /\ p.high_val_count = 0)
    /\ p.score = 9 => (p.play_val_count = 0 /\ p.high_val_count = 0)

C9_CmpLeavesOperands ==
    [][pc = "compare" => (player_play' = player_play /\ other_play' = other_play)]_vars

\* C10: a Play returned by calculate_play with play_val_count > 0 has a
\* play_vals buffer that has not been freed.
C10_PlayValsLive ==
    /\ ClassifiedPlayer => (player_play.play_val_count > 0 => ~player_play.play_vals_freed)
    /\ ClassifiedOther => (other_play.play_val_count > 0 => ~other_play.play_vals_freed)

====
